---------------------------- MODULE Spec2Model ----------------------------
(***************************************************************************)
(* A model of brica1/scheduler.py: the Scheduler base class and its three  *)
(* subclasses VirtualTimeSyncScheduler, VirtualTimeScheduler (the event    *)
(* queue scheduler) and RealTimeSyncScheduler.                             *)
(*                                                                         *)
(* Times are integers (the code uses floats; no claim checked here rests   *)
(* on rounding).  An optional value is a sequence of length 0 or 1.        *)
(* Every method is one action; a component call that raises is drawn as    *)
(* the position of the failing call among the calls the method makes.      *)
(***************************************************************************)
EXTENDS Integers, Sequences, FiniteSets

\* ------------------------------------------------------------- bounds
\* Largest virtual time / clock reading explored.
MaxTime == 3
\* Largest interval of a scheduler or a component.
MaxInterval == 2
\* Largest magnitude of a component offset (offsets range over -MaxOffset..MaxOffset).
MaxOffset == 1
\* Largest number of calls other than a step() that returns (update(), reset(),
\* set_interval(), a call that raises) the caller makes on one scheduler.
MaxCalls == 2
\* Largest number of step() calls the caller completes after construction or reset().
MaxSteps == 11
\* Largest time one phase of a real-time step can take on the clock.
MaxWork == 2

\* The components that exist; a source hands out any of them, in any order.
Comps == {"A", "B"}

VARIABLES
    num_steps,          \* Scheduler.num_steps
    current_time,       \* Scheduler.current_time
    components,         \* Scheduler.components: a sequence of components
    interval,           \* VirtualTimeSyncScheduler.interval / RealTimeSyncScheduler.interval
    event_queue,        \* VirtualTimeScheduler.event_queue: the heap list of the PriorityQueue
    last_input_time,    \* RealTimeSyncScheduler.last_input_time
    last_output_time,   \* RealTimeSyncScheduler.last_output_time
    last_spent,         \* RealTimeSyncScheduler.last_spent
    last_dt,            \* RealTimeSyncScheduler.last_dt (the attribute, not step()'s local)
    lagged,             \* RealTimeSyncScheduler.lagged: <<>> while the attribute does not exist
    comp,               \* per component: its offset and interval attributes
    class,              \* the class of the scheduler: "sync", "eq" or "rt"
    arrival,            \* while hist is kept: the pending events, oldest put first
    clock,              \* the wall clock read by current_time()
    pc,                 \* "idle", or "blocked" once the calling thread waits forever
    op,                 \* the method called last
    calls,              \* the component calls made by the method called last, in order
    ret,                \* <<v>>: the value it returned; <<>>: it returned nothing or raised
    err,                \* the exception it raised, or "none"
    slept,              \* <<d>>: it called time.sleep(d); <<>>: it did not
    made,               \* how many calls other than a step() that returned were made
    hist                \* <<n>>: n step() calls completed in the caller's scenario; <<>>: none tracked

vars == <<num_steps, current_time, components, interval, event_queue,
          last_input_time, last_output_time, last_spent, last_dt, lagged,
          comp, class, arrival, clock, pc, op, calls, ret, err, slept, made, hist>>

schedVars == <<num_steps, current_time, components>>
rtVars == <<last_input_time, last_output_time, last_spent, last_dt, lagged, clock>>

\* ------------------------------------------------------------- helpers
Range(s) == {s[i] : i \in DOMAIN s}

Names == {"A", "B", "C"}

\* What ca.get_all_components() can return: a list of distinct components.
Lists == {s \in UNION {[1..n -> Names] : n \in 0..Cardinality(Names)} :
              \A i, j \in DOMAIN s : i # j => s[i] # s[j]}

\* The lists of the components A and B.
Sources == {s \in Lists : Range(s) \subseteq Comps}

\* src lists components that exist.
IsSource(src) == src \in Lists /\ Range(src) \subseteq DOMAIN comp

\* s without its first element equal to x.
RemoveFirst(s, x) ==
    LET i == CHOOSE j \in DOMAIN s : s[j] = x /\ \A k \in 1..(j - 1) : s[k] # x
    IN  SubSeq(s, 1, i - 1) \o SubSeq(s, i + 1, Len(s))

\* hist is <<n>> while the caller runs the plain scenario a count is stated for,
\* n being the number of step() calls completed in it, and <<>> outside of it.
\* A step() that returned adds one; a call that raised ends the scenario.
HistStep(failed) ==
    IF failed \/ hist = <<>> THEN <<>> ELSE <<hist[1] + 1>>

\* made counts the calls other than a step() that returned; f is the component
\* call that raised in a step() (0: none).
MadeStep(f) == IF f = 0 THEN made ELSE made + 1
RoomToRaise(f) == IF f = 0 THEN TRUE ELSE made < MaxCalls

\* A step() is explored while the count stays within MaxSteps.
HistRoom == IF hist = <<>> THEN TRUE ELSE hist[1] < MaxSteps

\* ------------------------------------------------------------- components
\* component.input(t), component.fire(), component.output(t) as the scheduler
\* sees them: a call with its argument, made while the scheduler's
\* current_time is `at`.
InputCall(c, t, at) == [call |-> "input", comp |-> c, args |-> <<t>>, at |-> at]
FireCall(c, at) == [call |-> "fire", comp |-> c, args |-> <<>>, at |-> at]
OutputCall(c, t, at) == [call |-> "output", comp |-> c, args |-> <<t>>, at |-> at]

\* A component as the scheduler reads it once its input(t) has returned: input
\* records the time it was given as last_input_time.
AfterInput(cstate, t) ==
    [offset |-> cstate.offset, interval |-> cstate.interval, last_input_time |-> t]

\* The attributes a component is created with when nothing sets them.
CompDefault == [c \in Comps |-> [offset |-> 0, interval |-> 1]]

\* The attributes are drawn once, at construction of the components.  A and B
\* are interchangeable (a source lists them in either order), so only the
\* assignments in which A's (interval, offset) is not above B's are drawn.
AttrLeq(x, y) ==
    IF x.interval = y.interval THEN x.offset <= y.offset ELSE x.interval < y.interval

CompInit ==
    /\ comp \in [Comps -> [offset : (0 - MaxOffset)..MaxOffset,
                           interval : 0..MaxInterval]]
    /\ AttrLeq(comp["A"], comp["B"])

\* ------------------------------------------------------------- Scheduler
SchedulerInit ==
    /\ num_steps = 0
    /\ current_time = 0
    /\ components = <<>>

\* Scheduler.reset
SchedulerReset ==
    /\ num_steps' = 0
    /\ current_time' = 0
    /\ components' = <<>>

\* Scheduler.update
SchedulerUpdate(src) == components' = src

\* ------------------------------------------------------------- VirtualTimeSyncScheduler
\* for component in self.components: component.input(self.current_time)
SyncInputPhase(cs, t) == [i \in 1..Len(cs) |-> InputCall(cs[i], t, t)]

\* for component in self.components: component.fire()
SyncFirePhase(cs, t) == [i \in 1..Len(cs) |-> FireCall(cs[i], t)]

\* for component in self.components: component.output(self.current_time)
SyncOutputPhase(cs, t) == [i \in 1..Len(cs) |-> OutputCall(cs[i], t, t)]

\* A variant of SyncAdvance that restarts from the interval instead of adding it.
SyncAdvanceAssign(t, d) == d

\* self.current_time + self.interval
SyncAdvance(t, d) == t + d

\* A variant of SyncStepCalls that fires before it feeds the inputs.
SyncStepCallsFireFirst(cs, t0, t1) ==
    SyncFirePhase(cs, t0) \o SyncInputPhase(cs, t0) \o SyncOutputPhase(cs, t1)

\* The calls of one step() in the order the code makes them.
SyncStepCalls(cs, t0, t1) ==
    SyncInputPhase(cs, t0) \o SyncFirePhase(cs, t0) \o SyncOutputPhase(cs, t1)

\* A variant of CallsMade that goes on with the remaining calls after the call
\* that raised.
CallsMadeAnyway(full, f) == full

\* The first f calls of a method whose calls are `full` (f = 0: none raised).
CallsMade(full, f) == IF f = 0 THEN full ELSE SubSeq(full, 1, f)

SyncInit ==
    /\ SchedulerInit
    /\ interval \in 0..MaxInterval
    /\ event_queue = <<>>
    /\ last_input_time = 0 /\ last_output_time = 0
    /\ last_spent = 0 /\ last_dt = 0 /\ lagged = <<>>
    /\ clock = 0
    /\ comp = CompDefault
    /\ class = "sync" /\ arrival = <<>>
    /\ pc = "idle" /\ op = "init" /\ calls = <<>> /\ ret = <<>>
    /\ err = "none" /\ slept = <<>> /\ made = 0 /\ hist = <<0>>

\* VirtualTimeSyncScheduler.step; f is the call that raises (0: none does).
SyncStep(f) ==
    LET cs == components
        n == Len(cs)
        t0 == current_time
        t1 == SyncAdvance(t0, interval)
        advanced == f = 0 \/ f > 2 * n
    IN  /\ pc = "idle"
        /\ f \in 0..(3 * n)
        /\ t1 <= MaxTime
        /\ HistRoom
        /\ RoomToRaise(f)
        /\ made' = MadeStep(f)
        /\ current_time' = IF advanced THEN t1 ELSE t0
        /\ calls' = CallsMade(SyncStepCalls(cs, t0, t1), f)
        /\ ret' = IF f = 0 THEN <<t1>> ELSE <<>>
        /\ err' = IF f = 0 THEN "none" ELSE "ComponentError"
        /\ op' = "step"
        /\ slept' = <<>>
        /\ hist' = HistStep(f # 0)
        /\ UNCHANGED <<class, arrival, num_steps, components, interval, event_queue, rtVars, comp, pc>>

\* Scheduler.update, inherited.
SyncUpdate(src) ==
    /\ pc = "idle"
    /\ IsSource(src)
    /\ made < MaxCalls
    /\ made' = made + 1
    /\ SchedulerUpdate(src)
    /\ op' = "update" /\ calls' = <<>> /\ ret' = <<>> /\ err' = "none"
    /\ slept' = <<>>
    /\ UNCHANGED <<class, arrival, num_steps, current_time, interval, event_queue, rtVars, comp, pc, hist>>

\* Scheduler.reset, inherited.
SyncReset ==
    /\ pc = "idle"
    /\ made < MaxCalls
    /\ made' = made + 1
    /\ SchedulerReset
    /\ op' = "reset" /\ calls' = <<>> /\ ret' = <<>> /\ err' = "none"
    /\ slept' = <<>>
    /\ hist' = <<0>>
    /\ UNCHANGED <<class, arrival, interval, event_queue, rtVars, comp, pc>>

SyncNext ==
    \/ \E f \in 0..(3 * Cardinality(Comps)) : SyncStep(f)
    \/ \E src \in Sources : SyncUpdate(src)
    \/ SyncReset

SpecSync == SyncInit /\ [][SyncNext]_vars

\* ------------------------------------------------------------- VirtualTimeScheduler
\* VirtualTimeScheduler.Event
Event(time, component) == [time |-> time, component |-> component]

\* A variant of EventLt that also holds between events of the same time.
EventLtOrSame(a, b) == a.time <= b.time

\* A variant of EventLt that orders the later event first.
EventLtLatest(a, b) == a.time > b.time

\* VirtualTimeScheduler.Event.__lt__
EventLt(a, b) == a.time < b.time

\* heapq._siftdown, on a 1-based list: the parent of pos is pos \div 2.
RECURSIVE SiftDown(_, _, _, _)
SiftDown(h, startpos, pos, newitem) ==
    IF pos > startpos /\ EventLt(newitem, h[pos \div 2])
    THEN SiftDown([h EXCEPT ![pos] = h[pos \div 2]], startpos, pos \div 2, newitem)
    ELSE [h EXCEPT ![pos] = newitem]

\* heapq._siftup: the smaller child moves up until a leaf is reached (the
\* right child on a tie), then newitem is sifted down from there.
RECURSIVE SiftUp(_, _, _, _)
SiftUp(h, startpos, pos, newitem) ==
    LET childpos == 2 * pos
        rightpos == childpos + 1
        c == IF rightpos <= Len(h) /\ ~EventLt(h[childpos], h[rightpos])
             THEN rightpos ELSE childpos
    IN  IF childpos <= Len(h)
        THEN SiftUp([h EXCEPT ![pos] = h[c]], startpos, c, newitem)
        ELSE SiftDown([h EXCEPT ![pos] = newitem], startpos, pos, newitem)

\* self.event_queue.put(e): heapq.heappush
QueuePut(h, e) == SiftDown(Append(h, e), 1, Len(h) + 1, e)

\* self.event_queue.get() on a non-empty queue: heapq.heappop
QueueGet(h) ==
    LET lastelt == h[Len(h)]
        rest == SubSeq(h, 1, Len(h) - 1)
    IN  IF rest # <<>>
        THEN [item |-> rest[1],
              heap |-> SiftUp([rest EXCEPT ![1] = lastelt], 1, 1, lastelt)]
        ELSE [item |-> lastelt, heap |-> <<>>]

\* A variant of PrimeTime that leaves out last_input_time.
PrimeTimeNoInputTime(cstate, t) ==
    AfterInput(cstate, t).offset + AfterInput(cstate, t).interval

\* The time of the event update() queues for a component whose input(t) returned:
\* component.offset + component.last_input_time + component.interval
PrimeTime(cstate, t) ==
    AfterInput(cstate, t).offset + AfterInput(cstate, t).last_input_time
        + AfterInput(cstate, t).interval

\* A variant of NextTime that queues the component at the time it was served.
NextTimeSame(t, cstate) == t

\* A variant of NextTime that adds the offset again.
NextTimeWithOffset(t, cstate) == t + cstate.offset + cstate.interval

\* The time of the event step() queues: self.current_time + component.interval
NextTime(t, cstate) == t + cstate.interval

\* The queue after update() has primed and queued the first m components of cs.
RECURSIVE PutPrimed(_, _, _, _)
PutPrimed(h, cs, m, t) ==
    IF m = 0 THEN h
    ELSE QueuePut(PutPrimed(h, cs, m - 1, t), Event(PrimeTime(comp[cs[m]], t), cs[m]))

\* The calls of update(): input(current_time) and fire() on each component in turn.
UpdateCalls(cs, t) ==
    [k \in 1..(2 * Len(cs)) |->
        IF k % 2 = 1 THEN InputCall(cs[(k + 1) \div 2], t, t)
                     ELSE FireCall(cs[k \div 2], t)]

\* The calls of step() on component c at time t.
StepCalls(c, t) == <<OutputCall(c, t, t), InputCall(c, t, t), FireCall(c, t)>>

EQInit ==
    /\ SchedulerInit
    /\ interval = 0
    /\ event_queue = <<>>
    /\ last_input_time = 0 /\ last_output_time = 0
    /\ last_spent = 0 /\ last_dt = 0 /\ lagged = <<>>
    /\ clock = 0
    /\ CompInit
    /\ class = "eq" /\ arrival = <<>>
    /\ pc = "idle" /\ op = "init" /\ calls = <<>> /\ ret = <<>>
    /\ err = "none" /\ slept = <<>> /\ made = 0 /\ hist = <<>>

\* VirtualTimeScheduler.update; f is the call that raises (0: none does).
EQUpdate(src, f) ==
    LET n == Len(src)
        t == current_time
        primed == IF f = 0 THEN n ELSE (f - 1) \div 2
    IN  /\ pc = "idle"
        /\ IsSource(src)
        /\ f \in 0..(2 * n)
        /\ made < MaxCalls
        /\ made' = made + 1
        /\ SchedulerUpdate(src)
        /\ event_queue' = PutPrimed(event_queue, src, primed, t)
        /\ arrival' = IF op = "init" /\ f = 0
                      THEN [i \in 1..primed |-> Event(PrimeTime(comp[src[i]], t), src[i])]
                      ELSE <<>>
        /\ calls' = CallsMade(UpdateCalls(src, t), f)
        /\ ret' = <<>>
        /\ err' = IF f = 0 THEN "none" ELSE "ComponentError"
        /\ op' = "update"
        /\ slept' = <<>>
        /\ hist' = IF op = "init" /\ f = 0 THEN <<0>> ELSE <<>>
        /\ UNCHANGED <<class, num_steps, current_time, interval, rtVars, comp, pc>>

\* VirtualTimeScheduler.step on a non-empty queue; f is the call that raises.
EQStep(f) ==
    LET got == QueueGet(event_queue)
        e == got.item
        t == e.time
        c == e.component
    IN  /\ pc = "idle"
        /\ event_queue # <<>>
        /\ f \in 0..3
        /\ t <= MaxTime
        /\ HistRoom
        /\ RoomToRaise(f)
        /\ made' = MadeStep(f)
        /\ current_time' = t
        /\ event_queue' = IF f = 0
                          THEN QueuePut(got.heap, Event(NextTime(t, comp[c]), c))
                          ELSE got.heap
        /\ arrival' = IF f = 0 /\ hist # <<>>
                      THEN Append(RemoveFirst(arrival, e), Event(NextTime(t, comp[c]), c))
                      ELSE <<>>
        /\ calls' = CallsMade(StepCalls(c, t), f)
        /\ ret' = IF f = 0 THEN <<t>> ELSE <<>>
        /\ err' = IF f = 0 THEN "none" ELSE "ComponentError"
        /\ op' = "step"
        /\ slept' = <<>>
        /\ hist' = HistStep(f # 0)
        /\ UNCHANGED <<class, num_steps, components, interval, rtVars, comp, pc>>

\* VirtualTimeScheduler.step on an empty queue: PriorityQueue.get() blocks, and
\* nothing will ever put an event; the calling thread never returns.
EQStepEmpty ==
    /\ pc = "idle"
    /\ event_queue = <<>>
    /\ pc' = "blocked"
    /\ op' = "step" /\ calls' = <<>> /\ ret' = <<>> /\ err' = "none"
    /\ slept' = <<>>
    /\ UNCHANGED <<class, arrival, schedVars, interval, event_queue, rtVars, comp, made, hist>>

\* Scheduler.reset, inherited: the event queue is not touched.
EQReset ==
    /\ pc = "idle"
    /\ made < MaxCalls
    /\ made' = made + 1
    /\ SchedulerReset
    /\ op' = "reset" /\ calls' = <<>> /\ ret' = <<>> /\ err' = "none"
    /\ slept' = <<>>
    /\ hist' = <<>>
    /\ arrival' = <<>>
    /\ UNCHANGED <<class, interval, event_queue, rtVars, comp, pc>>

EQNext ==
    \/ \E src \in Sources : \E f \in 0..(2 * Cardinality(Comps)) : EQUpdate(src, f)
    \/ \E f \in 0..3 : EQStep(f)
    \/ EQStepEmpty
    \/ EQReset

SpecEQ == EQInit /\ [][EQNext]_vars

\* The event queue scheduler driven by update() and step() only.
EQRunNext ==
    \/ \E src \in Sources : \E f \in 0..(2 * Cardinality(Comps)) : EQUpdate(src, f)
    \/ \E f \in 0..3 : EQStep(f)
    \/ EQStepEmpty

SpecEQRun == EQInit /\ [][EQRunNext]_vars

\* The event queue scheduler bound once, by an update() on the new scheduler
\* that completes, and then driven by step() calls in which no component fails.
EQBind(src) == op = "init" /\ EQUpdate(src, 0)

EQStepOk == EQStep(0)

EQOnceNext ==
    \/ \E src \in Lists : EQBind(src)
    \/ EQStepOk
    \/ EQStepEmpty

\* The same with three components, each with a positive interval and an
\* offset that is not positive.
CompThreeInit ==
    comp \in [Names -> [offset : (0 - MaxOffset)..0, interval : 1..MaxInterval]]

EQThreeInit ==
    /\ SchedulerInit
    /\ interval = 0
    /\ event_queue = <<>>
    /\ last_input_time = 0 /\ last_output_time = 0
    /\ last_spent = 0 /\ last_dt = 0 /\ lagged = <<>>
    /\ clock = 0
    /\ CompThreeInit
    /\ class = "eq" /\ arrival = <<>>
    /\ pc = "idle" /\ op = "init" /\ calls = <<>> /\ ret = <<>>
    /\ err = "none" /\ slept = <<>> /\ made = 0 /\ hist = <<>>

SpecEQThree == EQThreeInit /\ [][EQOnceNext]_vars

\* The scheduler bound once whose caller calls step() again and again.
SpecEQLive == EQInit /\ [][EQOnceNext]_vars /\ WF_vars(EQStepOk)


\* ------------------------------------------------------------- RealTimeSyncScheduler
\* for component in self.components: component.input(self.last_input_time)
RTInputPhase(cs, t) == [i \in 1..Len(cs) |-> InputCall(cs[i], t, t)]

\* for component in self.components: component.fire()
RTFirePhase(cs, t) == [i \in 1..Len(cs) |-> FireCall(cs[i], t)]

\* for component in self.components: component.output(self.last_output_time)
RTOutputPhase(cs, t) == [i \in 1..Len(cs) |-> OutputCall(cs[i], t, t)]

\* The calls of one step() in the order the code makes them.
RTStepCalls(cs, tin, tout) ==
    RTInputPhase(cs, tin) \o RTFirePhase(cs, tin) \o RTOutputPhase(cs, tout)

\* self.last_spent = current_time() - self.last_input_time
RTSpent(now, tin) == now - tin

\* last_dt = self.interval - self.last_spent
RTRemaining(d, spent) == d - spent

\* A variant of RTSleeps that does not sleep for the smallest remainder.
RTSleepsLate(dt) == dt > 1

\* if last_dt > 0.0: time.sleep(last_dt)
RTSleeps(dt) == dt > 0

\* A variant of RTLagged that also flags a step that used exactly its interval.
RTLaggedOnEqual(dt) == ~RTSleeps(dt) /\ dt <= 0

\* elif last_dt < 0.0: self.lagged = True   (after self.lagged = False)
RTLagged(dt) == ~RTSleeps(dt) /\ dt < 0

\* The clock when time.sleep(dt) returns, having started at `now`: the sleep
\* lasts the requested time plus a delay `over` >= 0.
AfterSleep(now, dt, over) == now + dt + over

RTInit ==
    /\ last_input_time = -1
    /\ last_output_time = -1
    /\ last_spent = -1
    /\ last_dt = -1
    /\ lagged = <<>>
    /\ SchedulerInit
    /\ interval \in 1..MaxInterval
    /\ event_queue = <<>>
    /\ clock \in 0..1
    /\ comp = CompDefault
    /\ class = "rt" /\ arrival = <<>>
    /\ pc = "idle" /\ op = "init" /\ calls = <<>> /\ ret = <<>>
    /\ err = "none" /\ slept = <<>> /\ made = 0 /\ hist = <<>>

\* RealTimeSyncScheduler.step.  idle: the clock time since the last call ended;
\* work: the time the input and fire phases take; over: the delay of the sleep
\* (or the time between the two clock samples when there is no sleep); outw: the
\* time the output phase takes; f: the call that raises (0: none does).
RTStep(idle, work, over, outw, f) ==
    LET cs == components
        n == Len(cs)
        tin == clock + idle
        t1 == tin + work
        spent == RTSpent(t1, tin)
        dt == RTRemaining(interval, spent)
        tout == IF RTSleeps(dt) THEN AfterSleep(t1, dt, over) ELSE t1 + over
        tend == tout + outw
        fired == f = 0 \/ f > 2 * n
    IN  /\ pc = "idle"
        /\ idle \in 0..1 /\ work \in 0..MaxWork /\ over \in 0..1 /\ outw \in 0..MaxWork
        /\ f \in 0..(3 * n)
        /\ tend <= MaxTime
        /\ RoomToRaise(f)
        /\ made' = MadeStep(f)
        /\ last_input_time' = tin
        /\ last_spent' = IF fired THEN spent ELSE last_spent
        /\ lagged' = IF fired THEN <<RTLagged(dt)>> ELSE lagged
        /\ slept' = IF fired /\ RTSleeps(dt) THEN <<dt>> ELSE <<>>
        /\ last_output_time' = IF f = 0 THEN tend ELSE IF fired THEN tout ELSE last_output_time
        /\ current_time' = IF f = 0 THEN tend ELSE IF fired THEN tout ELSE tin
        /\ clock' = IF fired THEN tend ELSE t1
        /\ calls' = CallsMade(RTStepCalls(cs, tin, tout), f)
        /\ ret' = IF f = 0 THEN <<tend>> ELSE <<>>
        /\ err' = IF f = 0 THEN "none" ELSE "ComponentError"
        /\ op' = "step"
        /\ UNCHANGED <<class, arrival, num_steps, components, interval, event_queue, last_dt, comp, pc, hist>>

\* RealTimeSyncScheduler.set_interval: the attribute is assigned, then asserted.
RTSetInterval(x) ==
    /\ pc = "idle"
    /\ x \in -1..MaxInterval
    /\ made < MaxCalls
    /\ made' = made + 1
    /\ interval' = x
    /\ err' = IF x > 0 THEN "none" ELSE "AssertionError"
    /\ op' = "set_interval" /\ calls' = <<>> /\ ret' = <<>> /\ slept' = <<>>
    /\ UNCHANGED <<class, arrival, schedVars, event_queue, rtVars, comp, pc, hist>>

\* Scheduler.update, inherited.
RTUpdate(src) ==
    /\ pc = "idle"
    /\ IsSource(src)
    /\ made < MaxCalls
    /\ made' = made + 1
    /\ SchedulerUpdate(src)
    /\ op' = "update" /\ calls' = <<>> /\ ret' = <<>> /\ err' = "none"
    /\ slept' = <<>>
    /\ UNCHANGED <<class, arrival, num_steps, current_time, interval, event_queue, rtVars, comp, pc, hist>>

\* RealTimeSyncScheduler.reset is defined without a self parameter: called on
\* an instance it raises TypeError before its body runs.
RTReset ==
    /\ pc = "idle"
    /\ made < MaxCalls
    /\ made' = made + 1
    /\ op' = "reset" /\ calls' = <<>> /\ ret' = <<>> /\ err' = "TypeError"
    /\ slept' = <<>>
    /\ UNCHANGED <<class, arrival, schedVars, interval, event_queue, rtVars, comp, pc, hist>>

RTNext ==
    \/ \E idle \in 0..1, work \in 0..MaxWork, over \in 0..1, outw \in 0..MaxWork :
        \E f \in 0..(3 * Cardinality(Comps)) : RTStep(idle, work, over, outw, f)
    \/ \E x \in -1..MaxInterval : RTSetInterval(x)
    \/ \E src \in Sources : RTUpdate(src)
    \/ RTReset

SpecRT == RTInit /\ [][RTNext]_vars

\* ------------------------------------------------------- the three classes
\* A scheduler of any of the three classes, with the methods of its class.
AllInit == SyncInit \/ EQInit \/ RTInit

AllNext ==
    \/ class = "sync" /\ SyncNext
    \/ class = "eq" /\ EQNext
    \/ class = "rt" /\ RTNext

SpecAll == AllInit /\ [][AllNext]_vars


\* ------------------------------------------------------------- properties
Rank(call) == CASE call = "input" -> 1 [] call = "fire" -> 2 [] call = "output" -> 3

\* The components called in one phase of the last method, in call order.
PhaseComps(kind) ==
    LET sel == SelectSeq(calls, LAMBDA x : x.call = kind)
    IN  [i \in 1..Len(sel) |-> sel[i].comp]

IsPrefix(p, s) == Len(p) <= Len(s) /\ \A i \in 1..Len(p) : p[i] = s[i]

Completed(o) == op = o /\ err = "none" /\ pc = "idle"

Pending(c) == Cardinality({i \in DOMAIN event_queue : event_queue[i].component = c})

\* C1: in a step() of the synced virtual-time scheduler every input() call comes
\* before every fire() call and every fire() before every output(); the inputs
\* and fires are made before current_time is advanced and the outputs after it;
\* within a phase the components are called in list order.
C1_PhaseOrder ==
    op = "step" =>
        /\ \A i, j \in DOMAIN calls :
              Rank(calls[i].call) < Rank(calls[j].call) => i < j
        /\ \A i \in DOMAIN calls :
              IF calls[i].call = "output"
              THEN /\ calls[i].at = calls[1].at + interval
                   /\ calls[i].at = current_time
                   /\ calls[i].args = <<current_time>>
              ELSE calls[i].at = calls[1].at
        /\ \A kind \in {"input", "fire", "output"} :
              /\ IsPrefix(PhaseComps(kind), components)
              /\ err = "none" => PhaseComps(kind) = components

C1_Witness ==
    /\ Completed("step")
    /\ Len(components) = 2
    /\ interval = 1
    /\ Len(calls) = 6
    /\ current_time = 2

\* C2: N step() calls on a fresh or reset synced scheduler of interval D leave
\* current_time = N * D, and the N-th of them returns N * D.
C2_Accumulates ==
    hist # <<>> =>
        /\ current_time = hist[1] * interval
        /\ (op = "step" => ret = <<hist[1] * interval>>)

C2_Witness ==
    /\ hist = <<3>>
    /\ interval = 1
    /\ op = "step"
    /\ made > 0

\* C3: after every update() and every completed step() of the event queue
\* scheduler the queue holds exactly one event for each bound component and no
\* other event.
C3_OnePendingEach ==
    (Completed("update") \/ Completed("step")) =>
        \A c \in Comps : Pending(c) = IF c \in Range(components) THEN 1 ELSE 0

TimeMonotone ==
    /\ current_time' >= current_time
    /\ ret' # <<>> => ret'[1] = current_time'

IntervalsOk == \A c \in Comps : comp[c].interval >= 0

OffsetsOk == \A c \in Comps : comp[c].offset + comp[c].interval >= 0

\* C4 as stated: with intervals >= 0, over step() and update() calls,
\* current_time never decreases, and a step() returns the current_time it
\* leaves, which is at least the one it found (so at least the previous return).
C4_AsStated == [][IntervalsOk => TimeMonotone]_vars

\* C4, amended: the same, for components with interval >= 0 and
\* offset + interval >= 0 (input(t) recording last_input_time = t).
C4_Monotone == [][(IntervalsOk /\ OffsetsOk) => TimeMonotone]_vars

C4_Witness ==
    /\ IntervalsOk /\ OffsetsOk
    /\ Completed("step")
    /\ made = 2
    /\ Len(event_queue) > Len(components)
    /\ current_time > 0

\* C5: in a step() of the real-time scheduler the time passed to output() is at
\* least interval after last_input_time.
C5_MinimumSpacing ==
    op = "step" =>
        \A i \in DOMAIN calls :
            calls[i].call = "output" =>
                calls[i].args[1] - last_input_time >= interval

C5_Witness ==
    /\ Completed("step")
    /\ \E i \in DOMAIN calls : calls[i].call = "output"
    /\ interval = 2
    /\ last_spent = 1
    /\ slept = <<1>>

\* C6: after a step() of the real-time scheduler lagged is true exactly when
\* last_spent exceeded interval; then there was no sleep; with last_spent equal
\* to interval there is no sleep and lagged is false.
C6_LaggedIff ==
    Completed("step") =>
        /\ lagged = <<last_spent > interval>>
        /\ lagged = <<TRUE>> => slept = <<>>
        /\ last_spent = interval => slept = <<>> /\ lagged = <<FALSE>>
        /\ last_spent < interval => slept = <<interval - last_spent>>

C6_Witness ==
    /\ Completed("step")
    /\ lagged = <<TRUE>>
    /\ last_spent = 2
    /\ interval = 1
    /\ components # <<>>

\* C7: reset() leaves a virtual-time scheduler as freshly constructed:
\* num_steps = 0, current_time = 0, no components and no pending events.
C7_ResetIsFresh ==
    op = "reset" =>
        /\ num_steps = 0
        /\ current_time = 0
        /\ components = <<>>
        /\ event_queue = <<>>

\* C8: after a later update() every pending event belongs to a component of
\* the newly bound set.
C8_RebindDiscards ==
    Completed("update") =>
        \A i \in DOMAIN event_queue :
            event_queue[i].component \in Range(components)

\* C9: the interval of the real-time scheduler is > 0 in every state a caller
\* can observe, also after a rejected set_interval(x).
C9_IntervalPositive == interval > 0

\* The n-th smallest element of the multiset of offset_c + k * interval_c,
\* c among cs, k = 1, 2, ...: with positive intervals it is among the first n
\* of each series.
NthSmallest(cs, n) ==
    LET elems == Range(cs) \X (1..n)
        val(x) == comp[x[1]].offset + x[2] * comp[x[1]].interval
        upTo(v) == Cardinality({x \in elems : val(x) <= v})
    IN  CHOOSE v \in {val(x) : x \in elems} :
            /\ upTo(v) >= n
            /\ \A w \in {val(x) : x \in elems} : upTo(w) >= n => v <= w

\* C10: bound once, right after construction, to components with positive
\* intervals, the n-th step() returns the n-th smallest offset_c + k * interval_c.
C10_Merge ==
    (/\ hist # <<>>
     /\ op = "step"
     /\ ret # <<>>
     /\ \A c \in Range(components) : comp[c].interval > 0)
        => ret[1] = NthSmallest(components, hist[1])

C10_Witness ==
    /\ hist = <<4>>
    /\ op = "step"
    /\ ret = <<3>>
    /\ Len(components) = 2
    /\ comp["A"] = [offset |-> 0, interval |-> 1]
    /\ comp["B"] = [offset |-> 0, interval |-> 2]

\* C11: num_steps is the number of step() calls that completed since the
\* scheduler was constructed or last reset: 0 after construction and after
\* reset(), and one more after each step() that returned.
C11_CountsSteps == hist # <<>> => num_steps = hist[1]

\* The number of times x occurs in the sequence q.
Occ(q, x) == Cardinality({i \in DOMAIN q : q[i] = x})

\* The method and component of each call of cs, without the arguments.
CallNames(cs) == [i \in DOMAIN cs |-> <<cs[i].call, cs[i].comp>>]

\* The calls a synced step() makes on the components cs when none fails.
PhasePlan(cs) ==
    [i \in 1..Len(cs) |-> <<"input", cs[i]>>] \o
    [i \in 1..Len(cs) |-> <<"fire", cs[i]>>] \o
    [i \in 1..Len(cs) |-> <<"output", cs[i]>>]

\* The calls a step() of the event-queue scheduler makes on c when none fails.
EventPlan(c) == <<<<"output", c>>, <<"input", c>>, <<"fire", c>>>>

\* C12: when a component's input(), fire() or output() fails during step() of
\* any of the three schedulers, the step stops at that call and returns
\* nothing: the calls made are the calls of the step up to the failing one,
\* none is made twice and none after it, and the scheduler is left as it was
\* when the failing call was made: current_time is the time of that call (not
\* rolled back, not advanced further), the component list and num_steps are
\* untouched, the synced schedulers have advanced the clock only if the failure
\* came in the output phase, and the event-queue scheduler has removed the
\* event it was processing and nothing else.
C12_AbortKeepsState ==
    [][(op' = "step" /\ err' = "ComponentError") =>
        LET k == Len(calls')
            n == Len(components)
        IN  /\ ret' = <<>>
            /\ k > 0
            /\ current_time' = calls'[k].at
            /\ \A i, j \in 1..k : i # j => CallNames(calls')[i] # CallNames(calls')[j]
            /\ <<num_steps', components', interval', comp'>> =
                   <<num_steps, components, interval, comp>>
            /\ class = "sync" =>
                  /\ IsPrefix(CallNames(calls'), PhasePlan(components))
                  /\ k <= 2 * n => current_time' = current_time
                  /\ k > 2 * n => current_time' = current_time + interval
                  /\ event_queue' = event_queue
            /\ class = "rt" =>
                  /\ IsPrefix(CallNames(calls'), PhasePlan(components))
                  /\ last_input_time' = calls'[1].at
                  /\ k <= 2 * n =>
                        /\ current_time' = last_input_time'
                        /\ <<last_output_time', last_spent', lagged'>> =
                               <<last_output_time, last_spent, lagged>>
                  /\ k > 2 * n =>
                        /\ current_time' = last_output_time'
                        /\ lagged' # <<>>
                  /\ event_queue' = event_queue
            /\ class = "eq" =>
                  \E i \in DOMAIN event_queue :
                      LET e == event_queue[i]
                      IN  /\ current_time' = e.time
                          /\ IsPrefix(CallNames(calls'), EventPlan(e.component))
                          /\ Len(event_queue') = Len(event_queue) - 1
                          /\ \A x \in Range(event_queue) :
                                 Occ(event_queue', x) =
                                     Occ(event_queue, x) - (IF x = e THEN 1 ELSE 0)
      ]_vars

C12_Witness ==
    /\ class = "sync"
    /\ op = "step" /\ err = "ComponentError"
    /\ Len(components) = 2
    /\ Len(calls) = 5
    /\ current_time > 0

\* C13: in the event-queue scheduler, once update() has run, every bound
\* component has exactly one pending event whenever a method has ended, also
\* when that method is a step() that a failing output(), input() or fire()
\* aborted: the component whose call failed still has its pending event.
C13_PendingSurvivesAbort ==
    (op = "step" /\ err = "ComponentError") =>
        \A c \in Range(components) : Pending(c) = 1

\* C14: a step() of the event-queue scheduler on a non-empty queue removes a
\* pending event whose time is less than or equal to the time of every other
\* pending event, makes that time current_time, and calls, on the component of
\* that event and on no other, output(current_time), input(current_time) and
\* fire() in this order; a step() that completes returns that time.
C14_ServesEarliest ==
    [][(op' = "step" /\ event_queue # <<>>) =>
        \E i \in DOMAIN event_queue :
            LET e == event_queue[i]
                t == e.time
                c == e.component
                plan == << [call |-> "output", comp |-> c, args |-> <<t>>, at |-> t],
                           [call |-> "input", comp |-> c, args |-> <<t>>, at |-> t],
                           [call |-> "fire", comp |-> c, args |-> <<>>, at |-> t] >>
            IN  /\ \A j \in DOMAIN event_queue : t <= event_queue[j].time
                /\ Len(event_queue') = Len(event_queue) - (IF err' = "none" THEN 0 ELSE 1)
                /\ \A x \in Range(event_queue) \cup Range(event_queue') :
                       LET left == Occ(event_queue, x) - (IF x = e THEN 1 ELSE 0)
                       IN  /\ Occ(event_queue', x) >= left
                           /\ Occ(event_queue', x) > left =>
                                  x.component = c /\ err' = "none"
                /\ current_time' = t
                /\ IsPrefix(calls', plan)
                /\ err' = "none" => calls' = plan /\ ret' = <<t>>
      ]_vars

C14_Witness ==
    /\ Completed("step")
    /\ Len(components) = 2
    /\ Len(calls) = 3
    /\ calls[1].comp = components[2]
    /\ current_time = 1
    /\ ret = <<1>>

\* C15: after a step() of the event-queue scheduler that processed component c
\* at time t and completed, the queue holds, in place of the event it removed,
\* an event for c at exactly t + c.interval (the offset is not added again);
\* the pending events of the other components, the bound component list and
\* num_steps are as they were before the step.
C15_Reschedules ==
    [][(op' = "step" /\ err' = "none" /\ event_queue # <<>>) =>
        \E i \in DOMAIN event_queue :
            LET e == event_queue[i]
                t == e.time
                c == e.component
                next == [time |-> t + comp[c].interval, component |-> c]
            IN  /\ t = current_time'
                /\ c = calls'[1].comp
                /\ \A x \in Range(event_queue) \cup Range(event_queue') \cup {next} :
                       Occ(event_queue', x) =
                           Occ(event_queue, x) - (IF x = e THEN 1 ELSE 0)
                                               + (IF x = next THEN 1 ELSE 0)
                /\ components' = components
                /\ num_steps' = num_steps
      ]_vars

C15_Witness ==
    /\ Completed("step")
    /\ components = <<"A", "B">>
    /\ comp["A"] = [offset |-> 1, interval |-> 1]
    /\ comp["B"].interval = 2
    /\ calls[1].comp = "A"
    /\ current_time = 2
    /\ hist = <<2>>
    /\ Occ(event_queue, [time |-> 3, component |-> "A"]) = 1

\* C16: an update() of the event-queue scheduler that completes has primed every
\* component of the source: in list order it has called, on each component,
\* input(current_time) and then fire(), once each, and no output(); it has left
\* current_time as it was; and it has put one event per component, at
\* offset + last_input_time + interval with the last_input_time the component
\* has after that input() call.
C16_UpdatePrimes ==
    [][(op' = "update" /\ err' = "none" /\ class = "eq") =>
        LET cs == components'
            n == Len(cs)
            t == current_time
            due(c) == comp[c].offset + AfterInput(comp[c], t).last_input_time
                          + comp[c].interval
            put == [i \in 1..n |-> [time |-> due(cs[i]), component |-> cs[i]]]
        IN  /\ current_time' = t
            /\ Len(calls') = 2 * n
            /\ \A i \in 1..n :
                   /\ calls'[2 * i - 1] =
                          [call |-> "input", comp |-> cs[i], args |-> <<t>>, at |-> t]
                   /\ calls'[2 * i] =
                          [call |-> "fire", comp |-> cs[i], args |-> <<>>, at |-> t]
            /\ Len(event_queue') = Len(event_queue) + n
            /\ \A x \in Range(event_queue') \cup Range(put) :
                   Occ(event_queue', x) = Occ(event_queue, x) + Occ(put, x)
      ]_vars

C16_Witness ==
    /\ Completed("update")
    /\ class = "eq"
    /\ current_time = 1
    /\ components = <<"B", "A">>
    /\ Len(calls) = 4
    /\ Occ(event_queue, [time |-> 3, component |-> "B"]) = 1
    /\ comp["B"] = [offset |-> 1, interval |-> 1]

\* C17: a step() called while no component is bound (before update(), after
\* reset(), after update() on an empty source) ends: it returns or fails, and
\* never waits forever; a step() of the event-queue scheduler does not block
\* on an empty queue.
C17_StepEnds == components = <<>> => pc # "blocked"

\* The event a step() has just removed and processed.
Served == [time |-> current_time, component |-> calls[1].comp]

\* The pending event of the smallest time that was put first.
FirstDue ==
    LET due == {i \in DOMAIN arrival : \A j \in DOMAIN arrival :
                                            arrival[i].time <= arrival[j].time}
    IN  arrival[CHOOSE i \in due : \A j \in due : i <= j]

\* Some other pending event has the time of FirstDue as well.
SeveralDue == \E i, j \in DOMAIN arrival :
                  i # j /\ arrival[i].time = FirstDue.time /\ arrival[j].time = FirstDue.time

C19_ResetRestores ==
    (class = "rt" /\ op = "reset") =>
        /\ err = "none"
        /\ num_steps = 0
        /\ current_time = 0
        /\ components = <<>>
        /\ interval = 1

\* Every bound component has a positive interval.
AllPositive == \A c \in Range(components) : comp[c].interval > 0

\* Every pending event lies beyond the horizon MaxTime.
PastHorizon == \A i \in DOMAIN event_queue : event_queue[i].time > MaxTime

\* C20: in the event-queue scheduler bound by one update(), when every bound
\* component has a positive interval and step() is called again and again,
\* every pending event is served at its time, so that every bound component is
\* processed again and again, and current_time passes every horizon; a bound
\* component with interval 0 breaks this: once served it is pending again at
\* the same time, and current_time never gets past its first event.
C20_NoStarvation ==
    /\ \A c \in Comps : \A t \in (0 - MaxOffset)..MaxTime :
           (AllPositive /\ Occ(event_queue, [time |-> t, component |-> c]) > 0)
               ~> (Completed("step") /\ Served = [time |-> t, component |-> c])
    /\ (AllPositive /\ components # <<>>)
           ~> PastHorizon
    /\ [](\A c \in Range(components) :
              (comp[c].interval = 0 /\ Completed("step")) =>
                  /\ current_time <= comp[c].offset
                  /\ Occ(event_queue, [time |-> comp[c].offset, component |-> c]) = 1)

C20_Witness ==
    /\ Completed("step")
    /\ Len(components) = 2
    /\ AllPositive
    /\ PastHorizon
    /\ comp["A"].interval # comp["B"].interval
    /\ hist[1] > 3

=============================================================================
